---- MODULE Spec2Model ----
(***************************************************************************)
(* GovHUB backend: the appointment booking ledger and the ticket handlers  *)
(* of src/controller/TicketController.js (checkAvailability, addTicket,    *)
(* updateTicket, deleteTicket of the booking controller, and updateTicket, *)
(* rejectTicket of the notifying controller), over the Ticket collection   *)
(* of src/model/TicketModel.js.                                            *)
(*                                                                         *)
(* Instants are minutes since 2025-01-01 00:00 local time (a Wednesday).   *)
(* A handler is cut into steps at the awaits that touch the collection, so *)
(* that requests interleave the way the event loop lets them. The requests *)
(* of one behaviour arrive within the same minute of the clock, except     *)
(* under RulesSpec, where the clock moves on between requests.             *)
(*                                                                         *)
(* Spec serves the requests one at a time; RaceSpec lets two bookings or   *)
(* reschedules overlap; RulesSpec puts a day of times and a quarter of     *)
(* days to the time rules; EditSpec adds bodies with a status and edits of *)
(* date and time; NotifierSpec adds the rejectTicket of                    *)
(* src/unnamed/part_008, which awaits the notifier unguarded; ParseSpec    *)
(* adds a request that does not parse; LifeSpec follows tickets through    *)
(* updates and rejections under a moving clock; EagerSpec adds the         *)
(* handlers of src/unnamed/part_008 that notify before they save;          *)
(* MergeSpec puts bodies that merge fields to the notifying updateTicket;  *)
(* SerialSpec has addTicket, rejectTicket and deleteTicket only.           *)
(***************************************************************************)
EXTENDS Integers, Sequences, FiniteSets, Bags, TLC

\* ---------------------------------------------------------------- bounds
MaxTickets == 2
MaxInflight == 2

\* ------------------------------------------------------ program constants
OpeningHour == 8
LastHour == 15
LastMinute == 50
SlotMinutes == 15
HorizonMonths == 3

\* ------------------------------------------------------ optional values
None == << >>
Some(v) == << v >>
Get(o) == o[1]

\* ------------------------------------------------------ calendar (moment)
MinutesPerDay == 24 * 60
DaysInMonth == << 31, 28, 31, 30, 31, 30, 31, 31, 30, 31, 30, 31 >>

DayOf(t) == t \div MinutesPerDay
MinuteOfDay(t) == t % MinutesPerDay
Hour(t) == MinuteOfDay(t) \div 60
Minute(t) == MinuteOfDay(t) % 60
\* moment#day(): 0 is Sunday, 6 is Saturday; day 0 of the model is a Wednesday
Weekday(t) == (DayOf(t) + 3) % 7
\* moment#startOf("day")
StartOfDay(t) == DayOf(t) * MinutesPerDay
\* moment#format("HH:mm:ss"): the text, as its three numbers
FormatHHmmss(t) == << Hour(t), Minute(t), 0 >>
\* A date text and a time text with no digit in them (the texts of a body that
\* lacks both fields, "undefined undefined", among them), and the Invalid Date
\* moment makes of them.
NoDay == -1
NoTime == << >>
InvalidDate == -1
IsValid(t) == t # InvalidDate
\* moment("YYYY-MM-DD HH:mm"): a day number and the two numbers of "HH:mm"
ParseDateTime(d, tm) ==
    IF d = NoDay /\ tm = NoTime THEN InvalidDate
    ELSE d * MinutesPerDay + tm[1] * 60 + tm[2]

RECURSIVE MonthOfYearDay(_, _)
MonthOfYearDay(yd, m) ==
    IF yd < DaysInMonth[m] THEN << m, yd + 1 >>
    ELSE MonthOfYearDay(yd - DaysInMonth[m], m + 1)

RECURSIVE DaysBeforeMonth(_)
DaysBeforeMonth(m) == IF m = 1 THEN 0 ELSE DaysBeforeMonth(m - 1) + DaysInMonth[m - 1]

DaysPerYear == DaysBeforeMonth(12) + DaysInMonth[12]

\* the day number of a date of 2025
DayNumber(month, day) == DaysBeforeMonth(month) + day - 1

Min(a, b) == IF a < b THEN a ELSE b

\* moment#add(n, "months"): same day of the month n months on, clamped to the
\* length of that month, same time of day
\* the month and day of every day of the year, and the days before every month
MonthAndDay == [ yd \in 0 .. (DaysPerYear - 1) |-> MonthOfYearDay(yd, 1) ]
DaysBefore == [ m \in 1 .. 12 |-> DaysBeforeMonth(m) ]

AddMonths(t, n) ==
    LET y == DayOf(t) \div DaysPerYear
        md == MonthAndDay[DayOf(t) % DaysPerYear]
        m0 == md[1] + n
        y1 == IF m0 > 12 THEN y + 1 ELSE y
        m1 == IF m0 > 12 THEN m0 - 12 ELSE m0
        d1 == Min(md[2], DaysInMonth[m1])
    IN (y1 * DaysPerYear + DaysBefore[m1] + d1 - 1) * MinutesPerDay + MinuteOfDay(t)

\* ------------------------------------------------------ request domains
Departments == { "D1", "D2" }
Terminal == { "Approved", "Rejected", "Cancelled" }
Statuses == { "Pending" } \cup Terminal

Thursday6 == DayNumber(3, 6)
Saturday8 == DayNumber(3, 8)
Monday10 == DayNumber(3, 10)
Tuesday10June == DayNumber(6, 10)

\* the clock when the service starts: Friday 2025-03-07 12:00
Now0 == DayNumber(3, 7) * MinutesPerDay + 12 * 60

\* the (date, time) pairs requests name: two slots of a working day, a time off
\* the 15-minute grid, the closing hour, a weekend, a day gone by, a day too far
ReqSlots ==
    { << Monday10, << 9, 0 >> >>, << Monday10, << 9, 15 >> >>,
      << Monday10, << 9, 20 >> >>, << Monday10, << 16, 0 >> >>,
      << Saturday8, << 10, 0 >> >>, << Thursday6, << 9, 0 >> >>,
      << Tuesday10June, << 9, 0 >> >> }
ReqInstants == { ParseDateTime(Monday10, << 9, 0 >>), ParseDateTime(Monday10, << 9, 15 >>) }
Reasons == { "", "duplicate" }
Staff == { "S1" }

Ids == 1 .. MaxTickets

\* ------------------------------------------------------------ documents
\* A document of the Ticket collection (ticketSchema), without the fields no
\* handler decides on (customerID, issueDescription, notes, feedback).
NewTicket(dept, status, adt, date, time, closed, reason, staff, created) ==
    [ departmentID |-> dept, status |-> status,
      appointmentDateTime |-> adt, appointmentDate |-> date, appointmentTime |-> time,
      closedDate |-> closed, rejectionReason |-> reason, staffID |-> staff,
      createdDate |-> created ]

BlankTicket == NewTicket("", "", 0, 0, << >>, None, None, None, 0)

\* A request body: every field a handler looks at, absent ones None. schemaOk
\* says whether customerID, issueDescription and notes satisfy ticketSchema.
Body(dept, date, time, adt, status, reason, staff, ok) ==
    [ departmentID |-> dept, appointmentDate |-> date, appointmentTime |-> time,
      appointmentDateTime |-> adt, status |-> status,
      rejectionReason |-> reason, staffID |-> staff, createdDate |-> None,
      schemaOk |-> ok ]

\* the body, naming a createdDate as well
NamingCreatedDate(body, created) == [ body EXCEPT !.createdDate = Some(created) ]

EmptyBody == Body(None, None, None, None, None, None, None, TRUE)

Optional(S) == { None } \cup { Some(v) : v \in S }

AddBodies ==
    { Body(Some(d), Some(slot[1]), Some(slot[2]), None, None, None, None, ok) :
        d \in Departments, slot \in ReqSlots, ok \in BOOLEAN }

UpdateBodies ==
    { Body(None, None, None, adt, st, None, None, TRUE) :
        adt \in Optional(ReqInstants), st \in Optional(Statuses) }

\* the bodies that only move the appointment, and those that leave it alone
RescheduleBodies == { b \in UpdateBodies : b.appointmentDateTime # None /\ b.status = None }
StatusBodies == { b \in UpdateBodies : b.appointmentDateTime = None }

\* a reason that is missing, empty or given; the staff member names themself
\* or, with no reason at all, may not
RejectBodies ==
    { Body(None, None, None, None, None, rr, sf, TRUE) :
        rr \in Optional(Reasons), sf \in Optional(Staff) } \
    { Body(None, None, None, None, None, Some(rr), None, TRUE) : rr \in Reasons }

\* ---------------------------------------------------------------- state
VARIABLES
    tickets,    \* the Ticket collection: _id -> document
    nextId,     \* the next _id the collection hands out
    now,        \* the wall clock
    inflight,   \* the requests suspended at an await (a bag of them)
    last        \* what the latest handler step answered, and what the notifier did

vars == << tickets, nextId, now, inflight, last >>

\* A suspended request: where it resumes, its handler, req.params.id, req.body
\* and, once a document is loaded, what the handler keeps of it: the paths it
\* will have modified when it saves (mongoose writes those and no others) and
\* the status it was loaded with.
Suspended(pc, op, id, body, modified, oldStatus) ==
    [ pc |-> pc, op |-> op, id |-> id, body |-> body,
      modified |-> modified, oldStatus |-> oldStatus ]

Paths ==
    { "departmentID", "status", "appointmentDateTime", "appointmentDate",
      "appointmentTime", "closedDate", "rejectionReason", "staffID", "createdDate" }

Response(op, id, code, msg, notify) ==
    [ op |-> op, id |-> id, code |-> code, msg |-> msg, notify |-> notify ]

\* what a handler step leaves in last when it writes no response
NoResponse == Response("", 0, 0, "", "none")

Init ==
    /\ tickets = << >>
    /\ nextId = 1
    /\ now = Now0
    /\ inflight = EmptyBag
    /\ last = NoResponse

\* -------------------------------------------------------------- messages
MsgBookingHours == "Booking must be between 8:00 AM and 3:50 PM."
MsgTimeHours == "Time must be between 8:00 AM and 3:50 PM."
MsgInterval == "Appointments must be scheduled at 15-minute intervals."
MsgWeekend == "Appointments cannot be scheduled on weekends."
MsgPast == "Cannot book appointments in the past."
MsgTooFar == "Cannot book appointments more than 3 months in advance."
MsgBooked == "This slot is already booked."
MsgAvailable == "Time slot is available"
MsgCreated == "Ticket created successfully"
MsgUpdated == "Ticket updated successfully"
MsgDeleted == "Ticket deleted successfully"
MsgRejected == "Ticket rejected successfully"
MsgNotFound == "Ticket not found"
MsgReasonRequired == "Rejection reason is required"
MsgServerError == "Server error occurred."
Passed == ""

\* ------------------------------------------------------ the time rules
\* The five checks every handler runs on a requested instant t, in the order of
\* the code, against the clock; the message of the first that fails, or Passed.
\* a window that closes at 16:00 sharp
ClosesAtFour(t) == Hour(t) < 8 \/ Hour(t) > 16 \/ (Hour(t) = 16 /\ Minute(t) > 0)

\* hour() and minute() of an Invalid Date are NaN, and every comparison with
\* NaN is false
OutsideHours(t) ==
    /\ IsValid(t)
    /\ \/ Hour(t) < OpeningHour
       \/ (Hour(t) = LastHour /\ Minute(t) > LastMinute)
       \/ Hour(t) > LastHour

\* the rules with the weekend looked at after the past and the horizon
TimeRulesWeekendLast(t, clock, hoursMsg) ==
    IF OutsideHours(t) THEN hoursMsg
    ELSE IF Minute(t) % SlotMinutes # 0 THEN MsgInterval
    ELSE IF t < clock THEN MsgPast
    ELSE IF t > AddMonths(clock, HorizonMonths) THEN MsgTooFar
    ELSE IF Weekday(t) = 0 \/ Weekday(t) = 6 THEN MsgWeekend
    ELSE Passed

\* the rules with a horizon that ends just before the instant 3 months on
TimeRulesExclusive(t, clock, hoursMsg) ==
    IF OutsideHours(t) THEN hoursMsg
    ELSE IF Minute(t) % SlotMinutes # 0 THEN MsgInterval
    ELSE IF Weekday(t) = 0 \/ Weekday(t) = 6 THEN MsgWeekend
    ELSE IF t < clock THEN MsgPast
    ELSE IF t >= AddMonths(clock, HorizonMonths) THEN MsgTooFar
    ELSE Passed

\* the rules with the past looked at before everything else
TimeRulesPastFirst(t, clock, hoursMsg) ==
    IF t < clock THEN MsgPast
    ELSE IF OutsideHours(t) THEN hoursMsg
    ELSE IF Minute(t) % SlotMinutes # 0 THEN MsgInterval
    ELSE IF Weekday(t) = 0 \/ Weekday(t) = 6 THEN MsgWeekend
    ELSE IF t > AddMonths(clock, HorizonMonths) THEN MsgTooFar
    ELSE Passed

\* NaN % 15 is NaN, which is not 0
Misaligned(t) == ~IsValid(t) \/ Minute(t) % SlotMinutes # 0

TimeRules(t, clock, hoursMsg) ==
    IF OutsideHours(t) THEN hoursMsg
    ELSE IF Misaligned(t) THEN MsgInterval
    ELSE IF Weekday(t) = 0 \/ Weekday(t) = 6 THEN MsgWeekend
    ELSE IF t < clock THEN MsgPast
    ELSE IF t > AddMonths(clock, HorizonMonths) THEN MsgTooFar
    ELSE Passed

\* ------------------------------------------------------ the slot query
\* Ticket.findOne({ _id: {$ne: exclude}, $or: [{appointmentDateTime: adt},
\*   {appointmentDate: date, appointmentTime: time}], status: {$ne: "Rejected"} })
\* on the collection coll: whether a document matches. exclude is 0 when the
\* query has no _id clause.
\* a query that only the Approved tickets answer
OnlyApprovedBlocks(status) == status = "Approved"

StatusBlocks(status) == status # "Rejected"

SlotQuery(coll, exclude, adt, date, time) ==
    \E id \in DOMAIN coll :
        /\ id # exclude
        /\ \/ coll[id].appointmentDateTime = adt
           \/ /\ coll[id].appointmentDate = date
              /\ coll[id].appointmentTime = time
        /\ StatusBlocks(coll[id].status)

\* moment(ticketData.appointmentDateTime ||
\*        `${ticketData.appointmentDate} ${ticketData.appointmentTime}`)
BookingTime(body) ==
    IF body.appointmentDateTime # None THEN Get(body.appointmentDateTime)
    ELSE ParseDateTime(Get(body.appointmentDate), Get(body.appointmentTime))

\* The query addTicket and updateTicket build from the moment bt. The object
\* literal is evaluated in order and startOf("day") changes bt in place: the
\* first clause sees bt, the second sees the start of its day twice.
QueryDateTime(bt) == bt
QueryDate(bt) == StartOfDay(bt)
QueryTime(bt) == FormatHHmmss(StartOfDay(bt))

\* The moment after the query was built: what the rest of the handler sees.
AfterQuery(bt) == StartOfDay(bt)

\* the event loop: a request is taken up, suspends at an await, resumes, ends
Accepting(limit) == BagCardinality(inflight) < limit
Suspend(r) == inflight (+) SetToBag({ r })
Finish(r) == inflight (-) SetToBag({ r })
Resume(r, pc) == Finish(r) (+) SetToBag({ [ r EXCEPT !.pc = pc ] })
Waiting(op, pc) == { r \in BagToSet(inflight) : r.op = op /\ r.pc = pc }
PendingInserts ==
    LET adds == { r \in BagToSet(inflight) : r.op = "addTicket" }
    IN BagCardinality([ r \in adds |-> inflight[r] ])

\* ------------------------------------------------------------ addTicket
\* Up to the await of findOne: the time rules, then the slot query.
AddTicketCheck(body) ==
    LET bt == BookingTime(body)
        verdict == TimeRules(bt, now, MsgBookingHours)
        taken == SlotQuery(tickets, 0, QueryDateTime(bt), QueryDate(bt), QueryTime(bt))
    IN /\ IF verdict # Passed
          THEN /\ last' = Response("addTicket", 0, 400, verdict, "none")
               /\ UNCHANGED inflight
          ELSE IF taken
          THEN /\ last' = Response("addTicket", 0, 400, MsgBooked, "none")
               /\ UNCHANGED inflight
          ELSE /\ nextId + PendingInserts <= MaxTickets
               /\ inflight' = Suspend(Suspended("save", "addTicket", 0, body, { }, ""))
               /\ last' = NoResponse
       /\ UNCHANGED << tickets, nextId, now >>

\* new Ticket({...ticketData, appointmentDateTime, appointmentDate, appointmentTime})
\* built from the moment the query left behind, with the schema defaults.
AddTicketDocument(body, clock) ==
    LET bt == AfterQuery(BookingTime(body))
    IN NewTicket(Get(body.departmentID),
                 IF body.status # None THEN Get(body.status) ELSE "Pending",
                 bt, StartOfDay(bt), FormatHHmmss(StartOfDay(bt)),
                 None, body.rejectionReason, body.staffID,
                 IF body.createdDate # None THEN Get(body.createdDate) ELSE clock)

\* After the await: newTicket.save() and the 201, or the 500 of the catch when
\* the document fails schema validation.
AddTicketSave(r) ==
    /\ r \in Waiting("addTicket", "save")
    /\ IF r.body.schemaOk
       THEN /\ tickets' = (nextId :> AddTicketDocument(r.body, now)) @@ tickets
            /\ nextId' = nextId + 1
            /\ last' = Response("addTicket", nextId, 201, MsgCreated, "none")
       ELSE /\ last' = Response("addTicket", 0, 500, MsgServerError, "none")
            /\ UNCHANGED << tickets, nextId >>
    /\ inflight' = Finish(r)
    /\ UNCHANGED now

\* ----------------------------------------------------- checkAvailability
\* moment(`${date} ${time}`, "YYYY-MM-DD HH:mm"); the second clause of its query
\* compares appointmentTime with the request's "HH:mm" text itself.
\* an answer that takes a slot it has just shown free as held
AvailabilityHolding(day, tm) ==
    IF last.msg = MsgAvailable THEN MsgBooked ELSE MsgAvailable

\* the message of the answer, which decides its available flag
AvailabilityAnswer(day, tm) ==
    LET t == ParseDateTime(day, tm)
        verdict == TimeRules(t, now, MsgTimeHours)
        taken == SlotQuery(tickets, 0, t, day * MinutesPerDay, tm)
    IN IF verdict # Passed THEN verdict
       ELSE IF taken THEN MsgBooked ELSE MsgAvailable

CheckAvailability(day, tm) ==
    /\ last' = Response("checkAvailability", 0, 200, AvailabilityAnswer(day, tm), "none")
    /\ UNCHANGED << tickets, nextId, now, inflight >>

\* ---------------------------------------------------------- deleteTicket
\* Ticket.findByIdAndDelete(id): one operation of the collection.
DeleteTicket(id) ==
    /\ IF id \in DOMAIN tickets
       THEN /\ tickets' = [ i \in DOMAIN tickets \ { id } |-> tickets[i] ]
            /\ last' = Response("deleteTicket", id, 200, MsgDeleted, "none")
       ELSE /\ last' = Response("deleteTicket", id, 404, MsgNotFound, "none")
            /\ UNCHANGED tickets
    /\ UNCHANGED << nextId, now, inflight >>

\* ------------------------------------------------- documents in memory
\* Object.assign(ticket, req.body): every field the body names is overwritten.
AssignBody(doc, body) ==
    [ departmentID |->
          IF body.departmentID # None THEN Get(body.departmentID) ELSE doc.departmentID,
      status |-> IF body.status # None THEN Get(body.status) ELSE doc.status,
      appointmentDateTime |->
          IF body.appointmentDateTime # None THEN Get(body.appointmentDateTime)
          ELSE doc.appointmentDateTime,
      appointmentDate |->
          IF body.appointmentDate # None THEN Get(body.appointmentDate) * MinutesPerDay
          ELSE doc.appointmentDate,
      appointmentTime |->
          IF body.appointmentTime # None THEN Get(body.appointmentTime)
          ELSE doc.appointmentTime,
      closedDate |-> doc.closedDate,
      rejectionReason |->
          IF body.rejectionReason # None THEN body.rejectionReason ELSE doc.rejectionReason,
      staffID |-> IF body.staffID # None THEN body.staffID ELSE doc.staffID,
      createdDate |->
          IF body.createdDate # None THEN Get(body.createdDate) ELSE doc.createdDate ]

\* The paths of a loaded document (snap) that hold another value once the
\* handler has made it mem, and those it sets from the clock (forced).
ModifiedPaths(snap, mem, forced) == { f \in Paths : f \in forced \/ mem[f] # snap[f] }

\* document.save() of a loaded document: the modified paths are written over the
\* stored document (db) with their values in memory, the others keep what is
\* stored.
SaveDocument(db, mem, modified) ==
    [ departmentID |-> IF "departmentID" \in modified THEN mem.departmentID ELSE db.departmentID,
      status |-> IF "status" \in modified THEN mem.status ELSE db.status,
      appointmentDateTime |->
          IF "appointmentDateTime" \in modified
          THEN mem.appointmentDateTime ELSE db.appointmentDateTime,
      appointmentDate |->
          IF "appointmentDate" \in modified THEN mem.appointmentDate ELSE db.appointmentDate,
      appointmentTime |->
          IF "appointmentTime" \in modified THEN mem.appointmentTime ELSE db.appointmentTime,
      closedDate |-> IF "closedDate" \in modified THEN mem.closedDate ELSE db.closedDate,
      rejectionReason |->
          IF "rejectionReason" \in modified THEN mem.rejectionReason ELSE db.rejectionReason,
      staffID |-> IF "staffID" \in modified THEN mem.staffID ELSE db.staffID,
      createdDate |-> IF "createdDate" \in modified THEN mem.createdDate ELSE db.createdDate ]

\* ------------------------------------- updateTicket (booking controller)
\* The three appointment fields set from newTime once the query has moved it
\* to the start of its day.
Rescheduled(doc, body) ==
    IF body.appointmentDateTime = None THEN doc
    ELSE LET newTime == AfterQuery(Get(body.appointmentDateTime))
         IN [ doc EXCEPT !.appointmentDate = StartOfDay(newTime),
                         !.appointmentTime = FormatHHmmss(StartOfDay(newTime)),
                         !.appointmentDateTime = StartOfDay(newTime) ]

\* "Handle status changes": closedDate for a body status of Approved or Rejected.
ClosesTicket(body) == body.status # None /\ Get(body.status) \in { "Approved", "Rejected" }

UpdateTicketDocument(doc, body, clock) ==
    LET moved == Rescheduled(doc, body)
        closed == IF ClosesTicket(body) THEN [ moved EXCEPT !.closedDate = Some(clock) ]
                  ELSE moved
    IN AssignBody(closed, body)

\* closedDate comes from new Date(): a value the loaded document never holds
UpdateTicketForced(body) == IF ClosesTicket(body) THEN { "closedDate" } ELSE { }

\* Ticket.findById(id): 404, or the document is loaded.
UpdateTicketFind(id, body) ==
    /\ IF id \notin DOMAIN tickets
       THEN /\ last' = Response("updateTicket", id, 404, MsgNotFound, "none")
            /\ UNCHANGED inflight
       ELSE /\ inflight' = Suspend(
                Suspended(IF body.appointmentDateTime # None THEN "check" ELSE "save",
                          "updateTicket", id, body,
                          ModifiedPaths(tickets[id], UpdateTicketDocument(tickets[id], body, now),
                                        UpdateTicketForced(body)),
                          tickets[id].status))
            /\ last' = NoResponse
    /\ UNCHANGED << tickets, nextId, now >>

\* a handler that saves the new appointment before it validates it
UpdateTicketCheckAfterSave(r) ==
    LET newTime == Get(r.body.appointmentDateTime)
        verdict == TimeRules(newTime, now, MsgBookingHours)
        taken == SlotQuery(tickets, r.id, QueryDateTime(newTime), QueryDate(newTime),
                           QueryTime(newTime))
    IN /\ r \in Waiting("updateTicket", "check")
       /\ r.id \in DOMAIN tickets
       /\ tickets' = [ tickets EXCEPT ![r.id] = UpdateTicketDocument(@, r.body, now) ]
       /\ IF verdict # Passed
          THEN /\ last' = Response("updateTicket", r.id, 400, verdict, "none")
               /\ inflight' = Finish(r)
          ELSE IF taken
          THEN /\ last' = Response("updateTicket", r.id, 400, MsgBooked, "none")
               /\ inflight' = Finish(r)
          ELSE /\ inflight' = Resume(r, "save")
               /\ last' = NoResponse
       /\ UNCHANGED << nextId, now >>

\* A body with appointmentDateTime: the time rules, then the slot query without
\* the ticket itself.
UpdateTicketCheck(r) ==
    LET newTime == Get(r.body.appointmentDateTime)
        verdict == TimeRules(newTime, now, MsgBookingHours)
        taken == SlotQuery(tickets, r.id, QueryDateTime(newTime), QueryDate(newTime),
                           QueryTime(newTime))
    IN /\ r \in Waiting("updateTicket", "check")
       /\ IF verdict # Passed
          THEN /\ last' = Response("updateTicket", r.id, 400, verdict, "none")
               /\ inflight' = Finish(r)
          ELSE IF taken
          THEN /\ last' = Response("updateTicket", r.id, 400, MsgBooked, "none")
               /\ inflight' = Finish(r)
          ELSE /\ inflight' = Resume(r, "save")
               /\ last' = NoResponse
       /\ UNCHANGED << tickets, nextId, now >>

\* ticket.save() and the answer. A document deleted since it was loaded is
\* written nowhere; save() then throws or not depending on the mongoose build.
UpdateTicketSave(r) ==
    /\ r \in Waiting("updateTicket", "save")
    /\ IF r.id \in DOMAIN tickets
       THEN /\ tickets' = [ tickets EXCEPT ![r.id] =
                SaveDocument(@, UpdateTicketDocument(@, r.body, now), r.modified) ]
            /\ last' = Response("updateTicket", r.id, 200, MsgUpdated, "none")
       ELSE /\ UNCHANGED tickets
            /\ \E code \in { 200, 500 } :
                 last' = Response("updateTicket", r.id, code,
                                  IF code = 200 THEN MsgUpdated ELSE MsgServerError,
                                  "none")
    /\ inflight' = Finish(r)
    /\ UNCHANGED << nextId, now >>

\* ------------------------------------------------------- the notifier
\* Customer.findById, then sendTicketStatusUpdateEmail inside its own try: the
\* customer has no address, the mail goes out, or the send throws and is logged.
NotifierOutcomes == { "skipped", "sent", "failed" }

\* ---------------------------------- rejectTicket (notifying controller)
\* a test for the missing field only, which lets the empty string through
ReasonUndefined(body) == body.rejectionReason = None

\* !rejectionReason: the field is missing or the empty string.
ReasonMissing(body) == body.rejectionReason = None \/ Get(body.rejectionReason) = ""

RejectTicketDocument(doc, body, clock) ==
    [ doc EXCEPT !.status = "Rejected",
                 !.rejectionReason = body.rejectionReason,
                 !.closedDate = Some(clock),
                 !.staffID = IF body.staffID # None THEN body.staffID ELSE @ ]

\* The 400 comes before anything is read; otherwise Ticket.findById(id).
RejectTicketFind(id, body) ==
    /\ IF ReasonMissing(body)
       THEN /\ last' = Response("rejectTicket", id, 400, MsgReasonRequired, "none")
            /\ UNCHANGED inflight
       ELSE IF id \notin DOMAIN tickets
       THEN /\ last' = Response("rejectTicket", id, 404, MsgNotFound, "none")
            /\ UNCHANGED inflight
       ELSE /\ inflight' = Suspend(
                Suspended("save", "rejectTicket", id, body,
                          ModifiedPaths(tickets[id], RejectTicketDocument(tickets[id], body, now),
                                        { "closedDate" }),
                          tickets[id].status))
            /\ last' = NoResponse
    /\ UNCHANGED << tickets, nextId, now >>

\* ticket.save(); the notification and the answer come after it.
RejectTicketSave(r) ==
    /\ r \in Waiting("rejectTicket", "save")
    /\ IF r.id \in DOMAIN tickets
       THEN /\ tickets' = [ tickets EXCEPT ![r.id] =
                SaveDocument(@, RejectTicketDocument(@, r.body, now), r.modified) ]
            /\ inflight' = Resume(r, "notify")
            /\ last' = NoResponse
       ELSE /\ UNCHANGED tickets
            /\ \/ /\ inflight' = Resume(r, "notify")
                  /\ last' = NoResponse
               \/ /\ inflight' = Finish(r)
                  /\ last' = Response("rejectTicket", r.id, 500, MsgServerError, "none")
    /\ UNCHANGED << nextId, now >>

RejectTicketNotify(r) ==
    /\ r \in Waiting("rejectTicket", "notify")
    /\ \E outcome \in NotifierOutcomes :
         last' = Response("rejectTicket", r.id, 200, MsgRejected, outcome)
    /\ inflight' = Finish(r)
    /\ UNCHANGED << tickets, nextId, now >>

\* ---------------------------------- updateTicket (notifying controller)
\* a test for a status in the body only, whatever the status loaded
StatusNamed(oldStatus, body) == body.status # None

\* req.body.status names a status other than the one loaded
StatusChanges(oldStatus, body) == body.status # None /\ Get(body.status) # oldStatus

NotifyingUpdateDocument(doc, oldStatus, body, clock) ==
    LET merged == AssignBody(doc, body)
    IN IF ClosesTicket(body) /\ StatusChanges(oldStatus, body)
       THEN [ merged EXCEPT !.closedDate = Some(clock) ]
       ELSE merged

NotifyingUpdateForced(oldStatus, body) ==
    IF ClosesTicket(body) /\ StatusChanges(oldStatus, body) THEN { "closedDate" } ELSE { }

NotifyingUpdateFind(id, body) ==
    /\ IF id \notin DOMAIN tickets
       THEN /\ last' = Response("updateTicketNotifying", id, 404, MsgNotFound, "none")
            /\ UNCHANGED inflight
       ELSE /\ inflight' = Suspend(
                Suspended("save", "updateTicketNotifying", id, body,
                          ModifiedPaths(tickets[id],
                                        NotifyingUpdateDocument(tickets[id], tickets[id].status,
                                                                body, now),
                                        NotifyingUpdateForced(tickets[id].status, body)),
                          tickets[id].status))
            /\ last' = NoResponse
    /\ UNCHANGED << tickets, nextId, now >>

NotifyingUpdateSave(r) ==
    LET answered == /\ inflight' = Finish(r)
                    /\ last' = Response("updateTicketNotifying", r.id, 200, MsgUpdated, "none")
        notifies == /\ inflight' = Resume(r, "notify")
                    /\ last' = NoResponse
        goesOn == IF StatusChanges(r.oldStatus, r.body) THEN notifies ELSE answered
    IN /\ r \in Waiting("updateTicketNotifying", "save")
       /\ IF r.id \in DOMAIN tickets
          THEN /\ tickets' = [ tickets EXCEPT ![r.id] =
                   SaveDocument(@, NotifyingUpdateDocument(@, r.oldStatus, r.body, now),
                                r.modified) ]
               /\ goesOn
          ELSE /\ UNCHANGED tickets
               /\ \/ goesOn
                  \/ /\ inflight' = Finish(r)
                     /\ last' = Response("updateTicketNotifying", r.id, 500,
                                         MsgServerError, "none")
       /\ UNCHANGED << nextId, now >>

NotifyingUpdateNotify(r) ==
    /\ r \in Waiting("updateTicketNotifying", "notify")
    /\ \E outcome \in NotifierOutcomes :
         last' = Response("updateTicketNotifying", r.id, 200, MsgUpdated, outcome)
    /\ inflight' = Finish(r)
    /\ UNCHANGED << tickets, nextId, now >>

\* ---------------------------------------------------- the specification
\* Requests served one at a time: a request is taken up when none is suspended.
Next ==
    \/ Accepting(1) /\ \E body \in AddBodies : AddTicketCheck(body)
    \/ \E r \in BagToSet(inflight) : AddTicketSave(r)
    \/ Accepting(1) /\ \E slot \in ReqSlots : CheckAvailability(slot[1], slot[2])
    \/ Accepting(1) /\ \E id \in Ids, body \in UpdateBodies : UpdateTicketFind(id, body)
    \/ \E r \in BagToSet(inflight) : UpdateTicketCheck(r)
    \/ \E r \in BagToSet(inflight) : UpdateTicketSave(r)
    \/ Accepting(1) /\ \E id \in Ids : DeleteTicket(id)
    \/ Accepting(1) /\ \E id \in Ids, body \in RejectBodies : RejectTicketFind(id, body)
    \/ \E r \in BagToSet(inflight) : RejectTicketSave(r)
    \/ \E r \in BagToSet(inflight) : RejectTicketNotify(r)
    \/ Accepting(1) /\ \E id \in Ids, body \in StatusBodies : NotifyingUpdateFind(id, body)
    \/ \E r \in BagToSet(inflight) : NotifyingUpdateSave(r)
    \/ \E r \in BagToSet(inflight) : NotifyingUpdateNotify(r)

Spec == Init /\ [][Next]_vars

\* Bookings and reschedules served concurrently: up to MaxInflight requests are
\* suspended at once and resume in any order.
RaceNext ==
    \/ Accepting(MaxInflight) /\ \E body \in AddBodies : AddTicketCheck(body)
    \/ \E r \in BagToSet(inflight) : AddTicketSave(r)
    \/ Accepting(MaxInflight) /\
           \E id \in Ids, body \in RescheduleBodies : UpdateTicketFind(id, body)
    \/ \E r \in BagToSet(inflight) : UpdateTicketCheck(r)
    \/ \E r \in BagToSet(inflight) : UpdateTicketSave(r)

RaceSpec == Init /\ [][RaceNext]_vars

\* ============================================================== claims
Active == { "Pending", "Approved" }

\* the collection without the documents whose status is in the set gone
Without(gone) ==
    [ id \in { i \in DOMAIN tickets : tickets[i].status \notin gone } |-> tickets[id] ]

\* the collection reduced to the documents of one department
OfDepartment(dept) ==
    [ id \in { i \in DOMAIN tickets : tickets[i].departmentID = dept } |-> tickets[id] ]

\* addTicket's own query, put to another collection
AddQuery(coll, body) ==
    LET bt == BookingTime(body)
    IN SlotQuery(coll, 0, QueryDateTime(bt), QueryDate(bt), QueryTime(bt))

PassesTimeRules(body) == TimeRules(BookingTime(body), now, MsgBookingHours) = Passed

\* addTicket got past its checks: the request is suspended at newTicket.save()
Admits(body) == inflight' = Suspend(Suspended("save", "addTicket", 0, body, { }, ""))

\* C1: under concurrent addTicket and reschedule requests, no two tickets with
\* status Pending or Approved share a (departmentID, appointmentDateTime).
C1_MutualExclusion ==
    \A i, j \in DOMAIN tickets :
        ( /\ i # j
          /\ tickets[i].status \in Active
          /\ tickets[j].status \in Active
          /\ tickets[i].departmentID = tickets[j].departmentID )
        => tickets[i].appointmentDateTime # tickets[j].appointmentDateTime

\* C2: a ticket whose status is Approved, Rejected or Cancelled keeps that status
\* through every later step of updateTicket and rejectTicket.
C2_TerminalImmutable ==
    [][ \A id \in DOMAIN tickets :
          (tickets[id].status \in Terminal /\ id \in DOMAIN tickets')
          => tickets'[id].status = tickets[id].status ]_vars

\* C3: in every state, a ticket has a closedDate exactly when its status is not
\* Pending.
C3_ClosedDateIffNotPending ==
    \A id \in DOMAIN tickets :
        (tickets[id].closedDate # None) <=> (tickets[id].status # "Pending")

\* C4: in every state, a ticket has a non-empty rejectionReason exactly when its
\* status is Rejected.
C4_ReasonIffRejected ==
    \A id \in DOMAIN tickets :
        (tickets[id].rejectionReason \notin { None, Some("") })
        <=> (tickets[id].status = "Rejected")

\* C5: rejectTicket with a missing or empty rejectionReason answers 400, sends
\* no notification, goes no further and leaves every ticket as it was.
C5_RejectRequiresReason ==
    [][ \A id \in Ids, body \in RejectBodies :
          ( /\ body.rejectionReason \in { None, Some("") }
            /\ RejectTicketFind(id, body) )
          => /\ last' = Response("rejectTicket", id, 400, MsgReasonRequired, "none")
             /\ tickets' = tickets
             /\ inflight' = inflight ]_vars

\* a Pending ticket was named in a rejectTicket request that was answered 400
C5_Witness ==
    /\ last.op = "rejectTicket"
    /\ last.code = 400
    /\ last.id \in DOMAIN tickets
    /\ tickets[last.id].status = "Pending"
    /\ tickets[last.id].rejectionReason = None

\* the stored appointmentDateTime carries a time of day: it is not the start of
\* a day, which is what addTicket leaves in the field
HoldsInstant(id) ==
    tickets[id].appointmentDateTime # StartOfDay(tickets[id].appointmentDateTime)

\* the ticket is Rejected the way rejectTicket leaves it, in the department and
\* at the instant of the request
RejectedInSlot(id, body) ==
    /\ tickets[id].status = "Rejected"
    /\ tickets[id].rejectionReason \notin { None, Some("") }
    /\ tickets[id].closedDate # None
    /\ tickets[id].departmentID = Get(body.departmentID)
    /\ tickets[id].appointmentDateTime = BookingTime(body)

\* C6: an addTicket that passes the time rules, for the department and instant
\* of a ticket rejected through rejectTicket, gets past the slot check when
\* every Pending or Approved ticket of the department holds another instant.
C6_RejectedFreesSlot ==
    [][ \A body \in AddBodies :
          ( /\ AddTicketCheck(body)
            /\ PassesTimeRules(body)
            /\ \E id \in DOMAIN tickets : RejectedInSlot(id, body)
            /\ \A id \in DOMAIN tickets :
                 ( /\ tickets[id].status \in Active
                   /\ tickets[id].departmentID = Get(body.departmentID) )
                 => /\ HoldsInstant(id)
                    /\ tickets[id].appointmentDateTime # BookingTime(body) )
          => Admits(body) ]_vars

\* updateTicket's own query, put to another collection
UpdateQuery(coll, r) ==
    LET newTime == Get(r.body.appointmentDateTime)
    IN SlotQuery(coll, r.id, QueryDateTime(newTime), QueryDate(newTime), QueryTime(newTime))

\* checkAvailability's own query, put to another collection
AvailabilityQuery(coll, day, tm) ==
    SlotQuery(coll, 0, ParseDateTime(day, tm), day * MinutesPerDay, tm)

\* C7: addTicket, a reschedule and checkAvailability decide on a slot as if the
\* Cancelled tickets were not in the collection.
C7_CancelledFreesSlot ==
    [][ /\ \A body \in AddBodies :
             ( /\ AddTicketCheck(body)
               /\ PassesTimeRules(body)
               /\ ~AddQuery(Without({ "Rejected", "Cancelled" }), body) )
             => Admits(body)
        /\ \A r \in BagToSet(inflight) :
             ( /\ UpdateTicketCheck(r)
               /\ TimeRules(Get(r.body.appointmentDateTime), now, MsgBookingHours) = Passed
               /\ ~UpdateQuery(Without({ "Rejected", "Cancelled" }), r) )
             => inflight' = Resume(r, "save")
        /\ \A slot \in ReqSlots :
             ( /\ CheckAvailability(slot[1], slot[2])
               /\ TimeRules(ParseDateTime(slot[1], slot[2]), now, MsgTimeHours) = Passed
               /\ ~AvailabilityQuery(Without({ "Rejected", "Cancelled" }), slot[1], slot[2]) )
             => last'.msg = MsgAvailable ]_vars

\* C8: addTicket and a reschedule decide on a slot as if the collection held
\* the tickets of the request's department only.
C8_DepartmentScoped ==
    [][ /\ \A body \in AddBodies :
             ( /\ AddTicketCheck(body)
               /\ PassesTimeRules(body)
               /\ ~AddQuery(OfDepartment(Get(body.departmentID)), body) )
             => Admits(body)
        /\ \A r \in BagToSet(inflight) :
             ( /\ UpdateTicketCheck(r)
               /\ r.id \in DOMAIN tickets
               /\ TimeRules(Get(r.body.appointmentDateTime), now, MsgBookingHours) = Passed
               /\ ~UpdateQuery(OfDepartment(tickets[r.id].departmentID), r) )
             => inflight' = Resume(r, "save") ]_vars

\* C9: an addTicket that passes the time rules is admitted when a Pending or
\* Approved ticket of its department holds another instant of the same day and
\* every ticket that can block holds an instant other than the requested one.
C9_ExactInstantOnly ==
    [][ \A body \in AddBodies :
          ( /\ AddTicketCheck(body)
            /\ PassesTimeRules(body)
            /\ \E id \in DOMAIN tickets :
                 /\ tickets[id].status \in Active
                 /\ tickets[id].departmentID = Get(body.departmentID)
                 /\ DayOf(tickets[id].appointmentDateTime) = DayOf(BookingTime(body))
            /\ \A id \in DOMAIN tickets :
                 tickets[id].status # "Rejected"
                 => /\ HoldsInstant(id)
                    /\ tickets[id].appointmentDateTime # BookingTime(body) )
          => Admits(body) ]_vars

\* C10: the ticket a 201 of addTicket stores has the requested instant as its
\* appointmentDateTime, that day as appointmentDate and that time of day as
\* appointmentTime.
C10_StoredInstant ==
    [][ \A r \in BagToSet(inflight) :
          (AddTicketSave(r) /\ last'.code = 201)
          => LET t == BookingTime(r.body)
                 doc == tickets'[nextId]
             IN /\ doc.appointmentDateTime = t
                /\ doc.appointmentDate = StartOfDay(t)
                /\ doc.appointmentTime = FormatHHmmss(t) ]_vars

\* C11: every ticket's appointmentDateTime lies within the operating hours, on a
\* 15-minute boundary and on a working day, neither before the clock of its
\* admission nor more than 3 months after it.
C11_StoredInstantValid ==
    \A id \in DOMAIN tickets :
        LET t == tickets[id].appointmentDateTime
        IN /\ ~OutsideHours(t)
           /\ Minute(t) % SlotMinutes = 0
           /\ Weekday(t) \notin { 0, 6 }
           /\ t >= now
           /\ t <= AddMonths(now, HorizonMonths)

\* ======================================== the rules over a day and a quarter
\* The clock of a later request: the Monday after Now0, at noon.
Now1 == Monday10 * MinutesPerDay + 12 * 60

\* moment(): time passes between two requests
ClockAdvances ==
    /\ now = Now0
    /\ now' = Now1
    /\ UNCHANGED << tickets, nextId, inflight, last >>

Saturday1 == DayNumber(3, 1)
Sunday9 == DayNumber(3, 9)
Tuesday11 == DayNumber(3, 11)
Wednesday11June == DayNumber(6, 11)
Saturday14June == DayNumber(6, 14)

\* every time of day on a five-minute grid, and the times around the edges of
\* the window
RuleTimes == { << h, m >> : h \in 0..23, m \in { 5 * k : k \in 0..11 } }
EdgeTimes == { << h, m >> : h \in { 7, 8, 15, 16 }, m \in { 0, 15, 45, 50, 55 } }
QuarterDays ==
    { Saturday1, Thursday6, Saturday8, Sunday9, Tuesday11, Tuesday10June,
      Wednesday11June, Saturday14June }

\* req.body of checkAvailability: { date, time }
RuleSlots ==
    { << Monday10, tm >> : tm \in RuleTimes }
    \cup { << d, tm >> : d \in QuarterDays, tm \in { << 10, 0 >>, << 12, 0 >> } }

\* req.body of addTicket
RuleAddBodies ==
    { Body(Some("D1"), Some(slot[1]), Some(slot[2]), None, None, None, None, TRUE) :
        slot \in { << Monday10, tm >> : tm \in EdgeTimes }
                 \cup { << d, tm >> : d \in QuarterDays,
                                      tm \in { << 10, 0 >>, << 12, 0 >> } } }

RulesNext ==
    \/ Accepting(1) /\ \E slot \in RuleSlots : CheckAvailability(slot[1], slot[2])
    \/ Accepting(1) /\ \E body \in RuleAddBodies : AddTicketCheck(body)
    \/ \E r \in BagToSet(inflight) : AddTicketSave(r)
    \/ ClockAdvances

RulesSpec == Init /\ [][RulesNext]_vars

\* the slot starts of a window open 08:00-16:00 at 15-minute granularity
SlotStarts == { << h, m >> : h \in 8..15, m \in { 0, 15, 30, 45 } }

\* C17: a time of day gets past the operating-hours and the alignment rule of
\* checkAvailability and of addTicket exactly when it is one of 08:00, 08:15,
\* ..., 15:45; 16:00 is refused as outside the operating hours.
C17_WindowAndAlignment ==
    [][ /\ \A slot \in RuleSlots :
             CheckAvailability(slot[1], slot[2])
             => /\ (last'.msg \notin { MsgTimeHours, MsgInterval }) <=> (slot[2] \in SlotStarts)
                /\ (slot[2] = << 16, 0 >>) => (last'.msg = MsgTimeHours)
        /\ \A body \in RuleAddBodies :
             AddTicketCheck(body)
             => /\ (last'.msg \notin { MsgBookingHours, MsgInterval })
                   <=> (Get(body.appointmentTime) \in SlotStarts)
                /\ (Get(body.appointmentTime) = << 16, 0 >>)
                   => (last'.msg = MsgBookingHours) ]_vars

\* a booking for 15:45 got past the rules and waits for its save
C17_Witness ==
    \E r \in BagToSet(inflight) :
        /\ r.op = "addTicket"
        /\ r.body.appointmentTime = Some(<< 15, 45 >>)

\* the instant gets past the rules that come before the horizon rule
ReachesHorizonRule(t) ==
    /\ << Hour(t), Minute(t) >> \in SlotStarts
    /\ Weekday(t) \notin { 0, 6 }
    /\ t >= now

\* C19: a request for the instant exactly 3 calendar months after the clock
\* passes the horizon rule, one for a day later is refused as too far ahead.
C19_HorizonInclusive ==
    [][ LET horizon == AddMonths(now, 3)
        IN /\ \A slot \in RuleSlots :
                LET t == ParseDateTime(slot[1], slot[2])
                IN ( /\ t \in { horizon, horizon + MinutesPerDay }
                     /\ ReachesHorizonRule(t)
                     /\ CheckAvailability(slot[1], slot[2]) )
                   => /\ (t = horizon) => (last'.msg \in { MsgAvailable, MsgBooked })
                      /\ (t = horizon + MinutesPerDay) => (last'.msg = MsgTooFar)
           /\ \A body \in RuleAddBodies :
                LET t == BookingTime(body)
                IN ( /\ t \in { horizon, horizon + MinutesPerDay }
                     /\ ReachesHorizonRule(t)
                     /\ AddTicketCheck(body) )
                   => /\ (t = horizon) => (last'.msg \in { "", MsgBooked })
                      /\ (t = horizon + MinutesPerDay) => (last'.msg = MsgTooFar) ]_vars

\* on Monday 10 March at noon a booking for Tuesday 10 June at noon got past the
\* rules and waits for its save
C19_Witness ==
    /\ now = Now1
    /\ \E r \in BagToSet(inflight) :
         /\ r.op = "addTicket"
         /\ r.body.appointmentDate = Some(Tuesday10June)
         /\ r.body.appointmentTime = Some(<< 12, 0 >>)

\* the requests put to checkAvailability twice
ProbeSlots ==
    { << Monday10, tm >> : tm \in { << 7, 45 >>, << 8, 0 >>, << 15, 45 >>, << 15, 55 >> } }
    \cup { << d, tm >> : d \in QuarterDays, tm \in { << 10, 0 >>, << 12, 0 >> } }

EditSlots ==
    { << Monday10, << 9, 0 >> >>, << Tuesday11, << 9, 0 >> >>,
      << Saturday1, << 10, 0 >> >>, << Saturday8, << 10, 0 >> >>,
      << Sunday9, << 10, 0 >> >>, << Saturday14June, << 10, 0 >> >> }

EditAddBodies ==
    { Body(Some(d), Some(slot[1]), Some(slot[2]), None, st, None, None, TRUE) :
        d \in Departments, slot \in EditSlots, st \in Optional({ "Approved" }) }

\* req.body of updateTicket naming appointmentDate, appointmentTime or both,
\* and no appointmentDateTime
EditBodies ==
    { Body(None, d, tm, None, None, None, None, TRUE) :
        d \in Optional({ Saturday8, Sunday9 }), tm \in Optional({ << 10, 0 >> }) }
    \ { EmptyBody }

EditNext ==
    \/ Accepting(1) /\ \E body \in EditAddBodies : AddTicketCheck(body)
    \/ \E r \in BagToSet(inflight) : AddTicketSave(r)
    \/ Accepting(1) /\ \E slot \in EditSlots : CheckAvailability(slot[1], slot[2])
    \/ Accepting(1) /\ \E id \in Ids, body \in EditBodies : UpdateTicketFind(id, body)
    \/ \E r \in BagToSet(inflight) : UpdateTicketSave(r)

EditSpec == Init /\ [][EditNext]_vars

\* C12: an updateTicket whose body names appointmentDate and appointmentTime
\* (and no appointmentDateTime) for an instant the time rules refuse changes no
\* field of any ticket.
C12_EditRevalidated ==
    [][ \A r \in BagToSet(inflight) :
          ( /\ UpdateTicketSave(r)
            /\ r.id \in DOMAIN tickets
            /\ r.body.appointmentDateTime = None
            /\ r.body.appointmentDate # None
            /\ r.body.appointmentTime # None
            /\ TimeRules(BookingTime(r.body), now, MsgBookingHours) # Passed )
          => tickets' = tickets ]_vars

\* C13: the ticket a 201 of addTicket stores has status Pending and no
\* closedDate.
C13_CreatedPending ==
    [][ \A r \in BagToSet(inflight) :
          (AddTicketSave(r) /\ last'.code = 201)
          => /\ tickets'[nextId].status = "Pending"
             /\ tickets'[nextId].closedDate = None ]_vars

\* C18: a request for 10:00 on a Saturday or a Sunday is answered with the
\* weekend message by checkAvailability and by addTicket, which stores and
\* suspends nothing, whether the day is past, beyond the horizon or taken.
C18_WeekendFirst ==
    [][ /\ \A slot \in EditSlots :
             (Weekday(ParseDateTime(slot[1], slot[2])) \in { 0, 6 }
              /\ CheckAvailability(slot[1], slot[2]))
             => last'.msg = MsgWeekend
        /\ \A body \in EditAddBodies :
             (Weekday(BookingTime(body)) \in { 0, 6 } /\ AddTicketCheck(body))
             => /\ last' = Response("addTicket", 0, 400, MsgWeekend, "none")
                /\ tickets' = tickets
                /\ inflight' = inflight ]_vars

\* a weekend request was refused while a ticket is held on Saturday 8 March at
\* 10:00, one Saturday is past and another lies beyond the horizon
C18_Witness ==
    /\ last.msg = MsgWeekend
    /\ \E id \in DOMAIN tickets :
         /\ tickets[id].status = "Pending"
         /\ tickets[id].appointmentDate = Saturday8 * MinutesPerDay
         /\ tickets[id].appointmentTime = << 10, 0 >>
    /\ Saturday1 * MinutesPerDay < now
    /\ Saturday14June * MinutesPerDay > AddMonths(now, HorizonMonths)

\* C14: deleteTicket on a ticket of the collection leaves it there, with status
\* Cancelled and a closedDate.
C14_DeleteCancels ==
    [][ \A id \in DOMAIN tickets :
          DeleteTicket(id)
          => /\ id \in DOMAIN tickets'
             /\ tickets'[id].status = "Cancelled"
             /\ tickets'[id].closedDate # None ]_vars

\* C16: a step of addTicket, updateTicket or rejectTicket that answers 4xx leaves
\* the collection as it was, and so did the steps of its request before it: a
\* step that writes to the collection answers 200 or 201, or leaves its request
\* at the notification, after which the answer is 200.
C16_RefusalChangesNothing ==
    [][ /\ (last'.code \in 400..499) => (tickets' = tickets)
        /\ (tickets' # tickets)
           => \/ last'.code \in { 200, 201 }
              \/ \E r \in BagToSet(inflight') : r.pc = "notify"
        /\ \A r \in BagToSet(inflight) :
             (r.pc = "notify" /\ inflight' = Finish(r)) => (last'.code = 200) ]_vars

\* a reschedule was refused because the slot is taken
C16_Witness ==
    /\ last.op = "updateTicket"
    /\ last.code = 400
    /\ last.msg = MsgBooked
    /\ last.id \in DOMAIN tickets

\* ================= rejectTicket of the controller that awaits the notifier
\* src/unnamed/part_008: the same handler up to ticket.save(), then
\* sendTicketStatusUpdateEmail awaited under the handler's own try.
MsgEmailFailed == "Failed to send ticket status update email"

UnguardedRejectFind(id, body) ==
    /\ IF ReasonMissing(body)
       THEN /\ last' = Response("rejectTicketUnguarded", id, 400, MsgReasonRequired, "none")
            /\ UNCHANGED inflight
       ELSE IF id \notin DOMAIN tickets
       THEN /\ last' = Response("rejectTicketUnguarded", id, 404, MsgNotFound, "none")
            /\ UNCHANGED inflight
       ELSE /\ inflight' = Suspend(
                Suspended("save", "rejectTicketUnguarded", id, body,
                          ModifiedPaths(tickets[id], RejectTicketDocument(tickets[id], body, now),
                                        { "closedDate" }),
                          tickets[id].status))
            /\ last' = NoResponse
    /\ UNCHANGED << tickets, nextId, now >>

UnguardedRejectSave(r) ==
    /\ r \in Waiting("rejectTicketUnguarded", "save")
    /\ IF r.id \in DOMAIN tickets
       THEN /\ tickets' = [ tickets EXCEPT ![r.id] =
                SaveDocument(@, RejectTicketDocument(@, r.body, now), r.modified) ]
            /\ inflight' = Resume(r, "notify")
            /\ last' = NoResponse
       ELSE /\ UNCHANGED tickets
            /\ \/ /\ inflight' = Resume(r, "notify")
                  /\ last' = NoResponse
               \/ /\ inflight' = Finish(r)
                  /\ last' = Response("rejectTicketUnguarded", r.id, 500, MsgServerError, "none")
    /\ UNCHANGED << nextId, now >>

\* no address: 200; the mail goes out: 200; the send throws: the catch of the
\* handler answers 500 with the error's message
UnguardedRejectNotify(r) ==
    /\ r \in Waiting("rejectTicketUnguarded", "notify")
    /\ \E outcome \in NotifierOutcomes :
         last' = IF outcome = "failed"
                 THEN Response("rejectTicketUnguarded", r.id, 500, MsgEmailFailed, outcome)
                 ELSE Response("rejectTicketUnguarded", r.id, 200, MsgRejected, outcome)
    /\ inflight' = Finish(r)
    /\ UNCHANGED << tickets, nextId, now >>

NotifierAddBodies == { b \in AddBodies : b.schemaOk /\ b.departmentID = Some("D1") }

NotifierNext ==
    \/ Accepting(1) /\ \E body \in NotifierAddBodies : AddTicketCheck(body)
    \/ \E r \in BagToSet(inflight) : AddTicketSave(r)
    \/ Accepting(1) /\ \E id \in Ids, body \in RejectBodies : RejectTicketFind(id, body)
    \/ \E r \in BagToSet(inflight) : RejectTicketSave(r)
    \/ \E r \in BagToSet(inflight) : RejectTicketNotify(r)
    \/ Accepting(1) /\ \E id \in Ids, body \in RejectBodies : UnguardedRejectFind(id, body)
    \/ \E r \in BagToSet(inflight) : UnguardedRejectSave(r)
    \/ \E r \in BagToSet(inflight) : UnguardedRejectNotify(r)
    \/ Accepting(1) /\ \E id \in Ids, body \in StatusBodies : NotifyingUpdateFind(id, body)
    \/ \E r \in BagToSet(inflight) : NotifyingUpdateSave(r)
    \/ \E r \in BagToSet(inflight) : NotifyingUpdateNotify(r)

NotifierSpec == Init /\ [][NotifierNext]_vars

\* C15: when the notifier fails, the answer is still the success response and
\* the change the request made stays in the collection.
C15_NotifierFailureTolerated ==
    [][ (last'.notify = "failed")
        => /\ last'.code \in { 200, 201 }
           /\ tickets' = tickets ]_vars

\* ============================================ requests that do not parse
\* req.body of checkAvailability and of addTicket, a body whose date and time
\* hold no digit among them
ParseSlots == ReqSlots \cup { << NoDay, NoTime >> }

ParseAddBodies ==
    { Body(Some(d), Some(slot[1]), Some(slot[2]), None, None, None, None, TRUE) :
        d \in Departments, slot \in ParseSlots }

ParseNext ==
    \/ Accepting(1) /\ \E slot \in ParseSlots : CheckAvailability(slot[1], slot[2])
    \/ Accepting(1) /\ \E body \in ParseAddBodies : AddTicketCheck(body)
    \/ \E r \in BagToSet(inflight) : AddTicketSave(r)
    \/ Accepting(1) /\ \E id \in Ids : DeleteTicket(id)
    \/ ClockAdvances

ParseSpec == Init /\ [][ParseNext]_vars

\* the reasons of the rules that come after the parse
RuleReasons ==
    { MsgTimeHours, MsgBookingHours, MsgInterval, MsgWeekend, MsgPast, MsgTooFar, MsgBooked }

\* C21: a request whose date and time do not parse is refused by
\* checkAvailability and by addTicket with a reason that is none of the reasons
\* of the later rules, and addTicket stores and suspends nothing.
C21_InvalidFormatFirst ==
    [][ /\ CheckAvailability(NoDay, NoTime)
           => last'.msg \notin RuleReasons \cup { MsgAvailable }
        /\ \A body \in ParseAddBodies :
             (~IsValid(BookingTime(body)) /\ AddTicketCheck(body))
             => /\ last'.code = 400
                /\ last'.msg \notin RuleReasons
                /\ tickets' = tickets
                /\ inflight' = inflight ]_vars

\* ================================== a ticket's lifetime under a moving clock
\* the first instant of the calendar, a createdDate no ticket of the model has
Epoch == 0

LifeAddBodies ==
    { Body(Some("D1"), Some(slot[1]), Some(slot[2]), None, None, None, None, TRUE) :
        slot \in { << Monday10, << 9, 0 >> >>, << Tuesday11, << 9, 0 >> >> } }

\* req.body of updateTicket: a status, a createdDate, both or neither
LifeBodies ==
    StatusBodies \cup { NamingCreatedDate(b, Epoch) : b \in StatusBodies }

LifeNext ==
    \/ Accepting(1) /\ \E body \in LifeAddBodies : AddTicketCheck(body)
    \/ \E r \in BagToSet(inflight) : AddTicketSave(r)
    \/ Accepting(1) /\ \E id \in Ids, body \in LifeBodies : UpdateTicketFind(id, body)
    \/ \E r \in BagToSet(inflight) : UpdateTicketSave(r)
    \/ Accepting(1) /\ \E id \in Ids, body \in RejectBodies : RejectTicketFind(id, body)
    \/ \E r \in BagToSet(inflight) : RejectTicketSave(r)
    \/ \E r \in BagToSet(inflight) : RejectTicketNotify(r)
    \/ ClockAdvances

LifeSpec == Init /\ [][LifeNext]_vars

\* C22: no step changes the createdDate of a ticket, and an updateTicket whose
\* body names createdDate is refused.
C22_CreatedDateImmutable ==
    [][ /\ \A id \in DOMAIN tickets \cap DOMAIN tickets' :
             tickets'[id].createdDate = tickets[id].createdDate
        /\ \A r \in BagToSet(inflight) :
             (UpdateTicketSave(r) /\ r.body.createdDate # None)
             => last'.code \in 400..499 ]_vars

\* ------------------------------------------------ the order of the rules
\* which of the six rules the instant t fails, in the order operating hours,
\* alignment, weekend, in the past, too far ahead, slot taken
FailedRules(t, taken) ==
    << MinuteOfDay(t) < OpeningHour * 60 \/ MinuteOfDay(t) > LastHour * 60 + LastMinute,
       Minute(t) \notin { 0, 15, 30, 45 },
       Weekday(t) \in { 0, 6 },
       t < now,
       t > AddMonths(now, HorizonMonths),
       taken >>

\* the reason of the first rule that fails, or none when every rule passes
FirstReason(failed, reasons, none) ==
    IF \A k \in 1..6 : ~failed[k] THEN none
    ELSE reasons[CHOOSE k \in 1..6 : failed[k] /\ \A j \in 1..(k - 1) : ~failed[j]]

\* C23: checkAvailability and addTicket answer a request that parses with the
\* reason of the first rule it fails in the order operating hours, alignment,
\* weekend, in the past, too far ahead, slot taken.
C23_FirstFailingRule ==
    [][ /\ \A slot \in ReqSlots :
             CheckAvailability(slot[1], slot[2])
             => last'.msg =
                  FirstReason(FailedRules(ParseDateTime(slot[1], slot[2]),
                                          AvailabilityQuery(tickets, slot[1], slot[2])),
                              << MsgTimeHours, MsgInterval, MsgWeekend, MsgPast, MsgTooFar,
                                 MsgBooked >>,
                              MsgAvailable)
        /\ \A body \in ParseAddBodies :
             (IsValid(BookingTime(body)) /\ AddTicketCheck(body))
             => last'.msg =
                  FirstReason(FailedRules(BookingTime(body), AddQuery(tickets, body)),
                              << MsgBookingHours, MsgInterval, MsgWeekend, MsgPast, MsgTooFar,
                                 MsgBooked >>,
                              "") ]_vars

\* on Monday 10 March a booking for Saturday 8 March, a weekend day gone by, was
\* refused as a weekend and not as past
C23_Witness ==
    /\ now = Now1
    /\ last.op = "addTicket"
    /\ last.msg = MsgWeekend
    /\ tickets # << >>

\* C24: addTicket gets past its checks, and goes on to store the ticket, exactly
\* when checkAvailability answers the same date and time, on the same
\* collection and clock, with available: true.
C24_AddAgreesWithCheck ==
    [][ \A body \in ParseAddBodies :
          AddTicketCheck(body)
          => ( Admits(body)
               <=> AvailabilityAnswer(Get(body.appointmentDate), Get(body.appointmentTime))
                   = MsgAvailable ) ]_vars

\* C25: every ticket's appointmentDateTime is its appointmentDate at the time of
\* day its appointmentTime names.
C25_FieldsConsistent ==
    \A id \in DOMAIN tickets :
        tickets[id].appointmentDateTime
        = tickets[id].appointmentDate
          + tickets[id].appointmentTime[1] * 60 + tickets[id].appointmentTime[2]

\* ======= updateTicket and rejectTicket that notify before they save
\* src/unnamed/part_008, the controller with #sendTicketNotification: the
\* notification is awaited between the changes to the loaded document and
\* ticket.save(). #sendTicketNotification catches what the send throws.
\* A step of the notifier that writes no response.
Notified(op, id, outcome) == Response(op, id, 0, "", outcome)

\* Object.assign(ticket, req.body), then closedDate for a body status of
\* Approved or Rejected
EagerUpdateDocument(doc, body, clock) ==
    LET merged == AssignBody(doc, body)
    IN IF ClosesTicket(body) THEN [ merged EXCEPT !.closedDate = Some(clock) ] ELSE merged

EagerUpdateFind(id, body) ==
    /\ IF id \notin DOMAIN tickets
       THEN /\ last' = Response("updateTicketEager", id, 404, MsgNotFound, "none")
            /\ UNCHANGED inflight
       ELSE /\ inflight' = Suspend(
                Suspended(IF StatusChanges(tickets[id].status, body) THEN "notify" ELSE "save",
                          "updateTicketEager", id, body,
                          ModifiedPaths(tickets[id], EagerUpdateDocument(tickets[id], body, now),
                                        UpdateTicketForced(body)),
                          tickets[id].status))
            /\ last' = NoResponse
    /\ UNCHANGED << tickets, nextId, now >>

EagerUpdateNotify(r) ==
    /\ r \in Waiting("updateTicketEager", "notify")
    /\ \E outcome \in NotifierOutcomes : last' = Notified("updateTicketEager", r.id, outcome)
    /\ inflight' = Resume(r, "save")
    /\ UNCHANGED << tickets, nextId, now >>

EagerUpdateSave(r) ==
    /\ r \in Waiting("updateTicketEager", "save")
    /\ IF r.id \in DOMAIN tickets
       THEN /\ tickets' = [ tickets EXCEPT ![r.id] =
                SaveDocument(@, EagerUpdateDocument(@, r.body, now), r.modified) ]
            /\ last' = Response("updateTicketEager", r.id, 200, MsgUpdated, "none")
       ELSE /\ UNCHANGED tickets
            /\ \E code \in { 200, 500 } :
                 last' = Response("updateTicketEager", r.id, code,
                                  IF code = 200 THEN MsgUpdated ELSE MsgServerError,
                                  "none")
    /\ inflight' = Finish(r)
    /\ UNCHANGED << nextId, now >>

EagerRejectFind(id, body) ==
    /\ IF ReasonMissing(body)
       THEN /\ last' = Response("rejectTicketEager", id, 400, MsgReasonRequired, "none")
            /\ UNCHANGED inflight
       ELSE IF id \notin DOMAIN tickets
       THEN /\ last' = Response("rejectTicketEager", id, 404, MsgNotFound, "none")
            /\ UNCHANGED inflight
       ELSE /\ inflight' = Suspend(
                Suspended("notify", "rejectTicketEager", id, body,
                          ModifiedPaths(tickets[id], RejectTicketDocument(tickets[id], body, now),
                                        { "closedDate" }),
                          tickets[id].status))
            /\ last' = NoResponse
    /\ UNCHANGED << tickets, nextId, now >>

EagerRejectNotify(r) ==
    /\ r \in Waiting("rejectTicketEager", "notify")
    /\ \E outcome \in NotifierOutcomes : last' = Notified("rejectTicketEager", r.id, outcome)
    /\ inflight' = Resume(r, "save")
    /\ UNCHANGED << tickets, nextId, now >>

EagerRejectSave(r) ==
    /\ r \in Waiting("rejectTicketEager", "save")
    /\ IF r.id \in DOMAIN tickets
       THEN /\ tickets' = [ tickets EXCEPT ![r.id] =
                SaveDocument(@, RejectTicketDocument(@, r.body, now), r.modified) ]
            /\ last' = Response("rejectTicketEager", r.id, 200, MsgRejected, "none")
       ELSE /\ UNCHANGED tickets
            /\ \E code \in { 200, 500 } :
                 last' = Response("rejectTicketEager", r.id, code,
                                  IF code = 200 THEN MsgRejected ELSE MsgServerError,
                                  "none")
    /\ inflight' = Finish(r)
    /\ UNCHANGED << nextId, now >>

EagerNext ==
    \/ Accepting(1) /\ \E body \in NotifierAddBodies : AddTicketCheck(body)
    \/ \E r \in BagToSet(inflight) : AddTicketSave(r)
    \/ Accepting(1) /\ \E id \in Ids, body \in RejectBodies : RejectTicketFind(id, body)
    \/ \E r \in BagToSet(inflight) : RejectTicketSave(r)
    \/ \E r \in BagToSet(inflight) : RejectTicketNotify(r)
    \/ Accepting(1) /\ \E id \in Ids, body \in StatusBodies : NotifyingUpdateFind(id, body)
    \/ \E r \in BagToSet(inflight) : NotifyingUpdateSave(r)
    \/ \E r \in BagToSet(inflight) : NotifyingUpdateNotify(r)
    \/ Accepting(1) /\ \E id \in Ids, body \in StatusBodies : EagerUpdateFind(id, body)
    \/ \E r \in BagToSet(inflight) : EagerUpdateNotify(r)
    \/ \E r \in BagToSet(inflight) : EagerUpdateSave(r)
    \/ Accepting(1) /\ \E id \in Ids, body \in RejectBodies : EagerRejectFind(id, body)
    \/ \E r \in BagToSet(inflight) : EagerRejectNotify(r)
    \/ \E r \in BagToSet(inflight) : EagerRejectSave(r)

EagerSpec == Init /\ [][EagerNext]_vars

\* the status the request is to leave its ticket with
TargetStatus(r) == IF r.body.status # None THEN Get(r.body.status) ELSE "Rejected"

\* C26: when updateTicket or rejectTicket hands a status change to the notifier,
\* the ticket already has the new status in the collection.
C26_NotifyAfterSave ==
    [][ \A r \in BagToSet(inflight) :
          ( /\ r.pc = "notify"
            /\ r \notin BagToSet(inflight')
            /\ r.id \in DOMAIN tickets )
          => tickets[r.id].status = TargetStatus(r) ]_vars

\* C27: a closedDate that is set stays what it is through every later step of
\* updateTicket and rejectTicket.
C27_ClosedDateWrittenOnce ==
    [][ \A id \in DOMAIN tickets \cap DOMAIN tickets' :
          (tickets[id].closedDate # None)
          => tickets'[id].closedDate = tickets[id].closedDate ]_vars

\* C28: a reschedule of a ticket to the instant it already holds, which passes
\* the time rules while no other ticket that is not Rejected holds that
\* instant, is not refused as booked.
C28_NoSelfConflict ==
    [][ \A r \in BagToSet(inflight) :
          ( /\ UpdateTicketCheck(r)
            /\ r.id \in DOMAIN tickets
            /\ tickets[r.id].appointmentDateTime = Get(r.body.appointmentDateTime)
            /\ TimeRules(Get(r.body.appointmentDateTime), now, MsgBookingHours) = Passed
            /\ \A j \in DOMAIN tickets \ { r.id } :
                 tickets[j].status # "Rejected"
                 => tickets[j].appointmentDateTime # Get(r.body.appointmentDateTime) )
          => inflight' = Resume(r, "save") ]_vars

\* ============================ updates that merge fields (notifying controller)
\* req.body of updateTicket: a status, a staff member, both, neither, or a
\* createdDate alone
MergeBodies ==
    { Body(None, None, None, None, st, None, sf, TRUE) :
        st \in Optional(Statuses), sf \in Optional(Staff) }
    \cup { NamingCreatedDate(EmptyBody, Epoch) }

MergeNext ==
    \/ Accepting(1) /\ \E body \in NotifierAddBodies : AddTicketCheck(body)
    \/ \E r \in BagToSet(inflight) : AddTicketSave(r)
    \/ Accepting(1) /\ \E id \in Ids, body \in MergeBodies : NotifyingUpdateFind(id, body)
    \/ \E r \in BagToSet(inflight) : NotifyingUpdateSave(r)
    \/ \E r \in BagToSet(inflight) : NotifyingUpdateNotify(r)
    \/ Accepting(1) /\ \E id \in Ids : DeleteTicket(id)

MergeSpec == Init /\ [][MergeNext]_vars

\* the body names the field
Names(body, f) == f \in DOMAIN body /\ body[f] # None

SerialAddBodies ==
    { Body(Some(d), Some(slot[1]), Some(slot[2]), None, st, None, None, TRUE) :
        d \in Departments,
        slot \in ReqSlots \cup { << Tuesday11, << 9, 0 >> >> },
        st \in Optional({ "Approved", "Rejected" }) }

SerialNext ==
    \/ Accepting(1) /\ \E body \in SerialAddBodies : AddTicketCheck(body)
    \/ \E r \in BagToSet(inflight) : AddTicketSave(r)
    \/ Accepting(1) /\ \E id \in Ids, body \in RejectBodies : RejectTicketFind(id, body)
    \/ \E r \in BagToSet(inflight) : RejectTicketSave(r)
    \/ \E r \in BagToSet(inflight) : RejectTicketNotify(r)
    \/ Accepting(1) /\ \E id \in Ids : DeleteTicket(id)

SerialSpec == Init /\ [][SerialNext]_vars

\* C30: with addTicket, rejectTicket and deleteTicket served one at a time, no
\* two tickets whose status is not Rejected have the same stored
\* appointmentDateTime.
C30_SerialNoSharedInstant ==
    \A i, j \in DOMAIN tickets :
        ( /\ i # j
          /\ tickets[i].status # "Rejected"
          /\ tickets[j].status # "Rejected" )
        => tickets[i].appointmentDateTime # tickets[j].appointmentDateTime

\* a ticket was booked for the day of a ticket that rejectTicket had rejected,
\* and a further booking for that day was refused
C30_Witness ==
    /\ last.op = "addTicket"
    /\ last.msg = MsgBooked
    /\ \E i, j \in DOMAIN tickets :
         /\ tickets[i].status = "Rejected"
         /\ tickets[i].closedDate # None
         /\ tickets[j].status = "Pending"
         /\ tickets[j].appointmentDateTime = tickets[i].appointmentDateTime
====
